---- MODULE Spec2Model ----
(***************************************************************************)
(* Stock ledger and bill generation of the eyewear back-office API.        *)
(*                                                                         *)
(* The express handlers are async functions: a handler runs without        *)
(* interruption between two awaits, and another request may run at every   *)
(* await (a MongoDB read or write).  One action of this module is one      *)
(* such uninterrupted piece of one handler.  The persistent store is the   *)
(* variables stock, price, txlog and bills; req holds, for every request   *)
(* being served, the handler it runs, its position and its local           *)
(* variables.                                                              *)
(***************************************************************************)
EXTENDS Integers, Sequences, FiniteSets, TLC

\* ------------------------------------------------------------------ bounds
MaxStock == 1      \* largest stock count before the requests, and largest one asked for
MaxQty   == 1      \* largest quantity of a request
MaxItems == 2      \* largest number of lines of one generate request

\* ------------------------------------------------------------- collections
Reqs       == {"r1", "r2"}             \* the requests: each is served once
Products   == {"p1", "p2"}             \* the products collection (ids)
ProductIds == Products \cup {"px"}     \* ids a request may name; px: no such product
InitPrice  == [p \in Products |-> IF p = "p1" THEN 2 ELSE 3]

\* the users collection: role and display name (userSchema)
Users ==
  [u \in {"a1", "u1"} |->
     IF u = "a1" THEN [role |-> "admin", firstName |-> "Ann", lastName |-> "Lee"]
                 ELSE [role |-> "user",  firstName |-> "Bob", lastName |-> "Ray"]]
UserIds == DOMAIN Users \cup {"ux"}    \* ux: no such user
Actor   == "root"                      \* req.user._id of the authenticated caller
Reasons == {"restock"}                 \* body.reason of the ledger requests
Fees    == {0, 3}                      \* body.tax and body.discount of POST /generate
BillIds == {1}                         \* the :id of PATCH /:id/status: a position in bills
Statuses == {"PENDING", "PAID", "OVERDUE", "CANCELLED"}    \* body.status

VARIABLES stock, price, txlog, bills, req
vars == <<stock, price, txlog, bills, req>>

\* ----------------------------------------------------------------- helpers
Max(a, b) == IF a >= b THEN a ELSE b
Abs(x)    == IF x >= 0 THEN x ELSE 0 - x

\* a request slot that serves nothing
IdleReq ==
  [kind |-> "idle", pc |-> "idle", status |-> 0,
   product |-> "px", quantity |-> 0, reason |-> "",
   previousStock |-> 0, newStock |-> 0,
   loadedStock |-> 0, docStock |-> 0, loadedPrice |-> 0, docPrice |-> 0,
   adminId |-> "ux", nItems |-> 0, items |-> <<>>, i |-> 0, processedItems |-> <<>>,
   subtotal |-> 0, tax |-> 0, discount |-> 0, total |-> 0,
   billId |-> 0, newStatus |-> "",
   alone |-> FALSE, stock0 |-> [p \in Products |-> 0], tx0 |-> 0, bills0 |-> 0]

InFlight(r) == req[r].pc \notin {"idle", "done"}
Arrives(r)  == req[r].pc = "idle"

\* bookkeeping of the arrival of request r with the handler state h.  alone
\* says that no other request has taken a step since r arrived; stock0, tx0
\* and bills0 are then the store as r found it.  A request that arrives
\* while another is being served is not alone, and ends alone for every
\* request that arrived before it.
Start(r, h) ==
  [x \in Reqs |->
     IF x = r
       THEN IF \A y \in Reqs \ {r} : ~InFlight(y)
              THEN [h EXCEPT !.alone = TRUE, !.stock0 = stock,
                             !.tx0 = Len(txlog), !.bills0 = Len(bills)]
              ELSE h
       ELSE [req[x] EXCEPT !.alone = FALSE, !.stock0 = IdleReq.stock0,
                           !.tx0 = 0, !.bills0 = 0]]

\* the response is sent: the handler ends with HTTP status s
Respond(f, r, s) == [f EXCEPT ![r].pc = "done", ![r].status = s]

\* ------------------------------------------------------- schema validators
\* productSchema: stockCount { min: 0 }, price { min: 0 }
\* (variant: the stockCount path without its min validator)
StockCountValid_NoMin(v) == TRUE
StockCountValid(v) == v >= 0
PriceValid(v)      == v >= 0
ProductValid(d)    == StockCountValid(d.docStock) /\ PriceValid(d.docPrice)

\* product.save(): only the paths that differ from the loaded document are
\* written ($set of the modified paths)
\* (variant: the stock count updated by the difference, as $inc would)
SavedStock_Relative(d) ==
  [stock EXCEPT ![d.product] = stock[d.product] + (d.docStock - d.loadedStock)]
\* (variant: the stock count never written)
SavedStock_Skipped(d) == stock
SavedStock(d) ==
  IF d.docStock # d.loadedStock THEN [stock EXCEPT ![d.product] = d.docStock] ELSE stock
SavedPrice(d) ==
  IF d.docPrice # d.loadedPrice THEN [price EXCEPT ![d.product] = d.docPrice] ELSE price

\* Product.findById: the fields of the loaded document
Loaded(h, p) ==
  [h EXCEPT !.product = p,
            !.loadedStock = stock[p], !.docStock = stock[p],
            !.loadedPrice = price[p], !.docPrice = price[p]]

\* transaction.save(): the record is appended to the log as the handler built
\* it (the transaction log store is append-only)
SavedTransaction(t) == Append(txlog, t)

\* new InventoryTransaction({...}) of the ledger handlers
LedgerTransaction(d, type) ==
  [product |-> d.product, type |-> type, quantity |-> d.quantity,
   previousStock |-> d.previousStock, newStock |-> d.newStock,
   reason |-> d.reason, reference |-> <<>>, performedBy |-> Actor]

\* ------------------------------------------------------------ stock ledger
AddNewStock(previousStock, quantity)    == previousStock + quantity
\* (variant: the difference without the clamp at 0)
RemoveNewStock_NoClamp(previousStock, quantity) == previousStock - quantity
RemoveNewStock(previousStock, quantity) == Max(0, previousStock - quantity)
\* (variant: the signed difference)
AdjustQuantity_Signed(previousStock, newQuantity) == newQuantity - previousStock
AdjustQuantity(previousStock, newQuantity) == Abs(newQuantity - previousStock)

\* POST /add-stock up to product.save()
AddStock(r, p, q, why) ==
  /\ Arrives(r)
  /\ LET h == [IdleReq EXCEPT !.kind = "add", !.quantity = q, !.reason = why, !.product = p]
     IN IF p \notin Products
          THEN req' = Respond(Start(r, h), r, 404)
          ELSE LET d == Loaded(h, p)
                   n == AddNewStock(d.docStock, q)
               IN req' = Start(r, [d EXCEPT !.pc = "save", !.previousStock = d.docStock,
                                            !.newStock = n, !.docStock = n])
  /\ UNCHANGED <<stock, price, txlog, bills>>

\* POST /remove-stock up to product.save()
RemoveStock(r, p, q, why) ==
  /\ Arrives(r)
  /\ LET h == [IdleReq EXCEPT !.kind = "remove", !.quantity = q, !.reason = why, !.product = p]
     IN IF p \notin Products
          THEN req' = Respond(Start(r, h), r, 404)
          ELSE LET d == Loaded(h, p)
                   n == RemoveNewStock(d.docStock, q)
               IN req' = Start(r, [d EXCEPT !.pc = "save", !.previousStock = d.docStock,
                                            !.newStock = n, !.docStock = n])
  /\ UNCHANGED <<stock, price, txlog, bills>>

\* POST /adjust-stock up to product.save(); the transaction's quantity is the
\* absolute difference
AdjustStock(r, p, newQuantity, why) ==
  /\ Arrives(r)
  /\ LET h == [IdleReq EXCEPT !.kind = "adjust", !.reason = why, !.product = p]
     IN IF p \notin Products
          THEN req' = Respond(Start(r, h), r, 404)
          ELSE LET d == Loaded(h, p)
               IN req' = Start(r, [d EXCEPT !.pc = "save", !.previousStock = d.docStock,
                                            !.quantity = AdjustQuantity(d.docStock, newQuantity),
                                            !.newStock = newQuantity, !.docStock = newQuantity])
  /\ UNCHANGED <<stock, price, txlog, bills>>

\* await product.save() of the three ledger handlers
LedgerSaveProduct(r) ==
  /\ req[r].kind \in {"add", "remove", "adjust"}
  /\ req[r].pc = "save"
  /\ IF ProductValid(req[r])
       THEN /\ stock' = SavedStock(req[r])
            /\ req' = [req EXCEPT ![r].pc = "tx"]
       ELSE /\ req' = Respond(req, r, 500)
            /\ UNCHANGED stock
  /\ UNCHANGED <<price, txlog, bills>>

\* InventoryTransaction type written by each ledger handler
TxType(kind) ==
  CASE kind = "add" -> "IN" [] kind = "remove" -> "OUT" [] OTHER -> "ADJUSTMENT"

\* (variant: the record replaces the log instead of being added to it)
LedgerSaveTransaction_Overwrite(r) ==
  /\ req[r].kind \in {"add", "remove", "adjust"}
  /\ req[r].pc = "tx"
  /\ txlog' = <<LedgerTransaction(req[r], TxType(req[r].kind))>>
  /\ req' = Respond(req, r, 200)
  /\ UNCHANGED <<stock, price, bills>>

\* await transaction.save() of the three ledger handlers, and the response
LedgerSaveTransaction(r) ==
  /\ req[r].kind \in {"add", "remove", "adjust"}
  /\ req[r].pc = "tx"
  /\ txlog' = SavedTransaction(LedgerTransaction(req[r], TxType(req[r].kind)))
  /\ req' = Respond(req, r, 200)
  /\ UNCHANGED <<stock, price, bills>>

\* ---------------------------------------------------------- product update
\* the bodies of PUT /:id that matter here: a stock count or a price, unvalidated
PutBodies ==
  {[hasStock |-> TRUE, stockCount |-> v, hasPrice |-> FALSE, price |-> 0] : v \in -1..MaxStock}


\* PUT /:id up to product.save(): Object.assign(product, req.body)
UpdateProduct(r, p, body) ==
  /\ Arrives(r)
  /\ LET h == [IdleReq EXCEPT !.kind = "put", !.product = p]
     IN IF p \notin Products
          THEN req' = Respond(Start(r, h), r, 404)
          ELSE LET d == Loaded(h, p)
               IN req' = Start(r, [d EXCEPT !.pc = "save",
                        !.docStock = IF body.hasStock THEN body.stockCount ELSE d.docStock,
                        !.docPrice = IF body.hasPrice THEN body.price ELSE d.docPrice])
  /\ UNCHANGED <<stock, price, txlog, bills>>

\* await product.save() of PUT /:id, and the response
UpdateProductSave(r) ==
  /\ req[r].kind = "put"
  /\ req[r].pc = "save"
  /\ IF ProductValid(req[r])
       THEN /\ stock' = SavedStock(req[r])
            /\ price' = SavedPrice(req[r])
            /\ req' = Respond(req, r, 200)
       ELSE /\ req' = Respond(req, r, 500)
            /\ UNCHANGED <<stock, price>>
  /\ UNCHANGED <<txlog, bills>>

\* ----------------------------------------------------------------- billing
\* the lines of the body of POST /generate: a product id and a quantity >= 1.
\* The body is fixed when the request arrives; no step of the handler depends
\* on a line before the loop reaches it, nor on tax and discount before the
\* total is computed, so the request draws its number of lines when it
\* starts, each line when the loop reads it (items is the part of the body
\* read so far) and tax and discount when the total is computed.
Lines == [product : ProductIds, quantity : 1..MaxQty]

\* `Admin: ${admin.firstName} ${admin.lastName}`
AdminReference(u) == <<"Admin: ", u.firstName, " ", u.lastName>>

\* the availability check of one line: true when the line is refused
\* (variant: the comparison off by one)
InsufficientStock_OffByOne(stockCount, quantity) == stockCount + 1 < quantity
InsufficientStock(stockCount, quantity) == stockCount < quantity

\* the target of a bill: a user that exists and has the admin role
\* (variant: the role is not looked at)
IsAdmin_AnyUser(adminId) == adminId \in DOMAIN Users
IsAdmin(adminId) == adminId \in DOMAIN Users /\ Users[adminId].role = "admin"

\* POST /generate up to the first Product.findById: the admin is looked up
GenerateBill(r, adminId, n) ==
  /\ Arrives(r)
  /\ LET h == [IdleReq EXCEPT !.kind = "gen", !.adminId = adminId]
     IN IF ~IsAdmin(adminId)
          THEN req' = Respond(Start(r, h), r, 404)
          ELSE req' = Start(r, [h EXCEPT !.pc = "read", !.nItems = n, !.i = 1])
  /\ UNCHANGED <<stock, price, txlog, bills>>

\* one turn of the loop over the items, from Product.findById up to
\* product.save(): the line is checked, priced and taken from the document
GenReadProduct(r, item) ==
  /\ req[r].kind = "gen"
  /\ req[r].pc = "read"
  /\ LET h == [req[r] EXCEPT !.items = Append(@, item)]
     IN IF item.product \notin Products
          THEN req' = Respond([req EXCEPT ![r] = h], r, 404)
          ELSE LET d == Loaded(h, item.product)
                   itemTotal == d.docPrice * item.quantity
               IN IF InsufficientStock(d.docStock, item.quantity)
                    THEN req' = Respond([req EXCEPT ![r] = d], r, 400)
                    ELSE req' = [req EXCEPT ![r] =
                           [d EXCEPT !.pc = "save",
                                     !.subtotal = @ + itemTotal,
                                     !.processedItems = Append(@,
                                        [product |-> item.product, quantity |-> item.quantity,
                                         unitPrice |-> d.docPrice, totalPrice |-> itemTotal]),
                                     !.docStock = @ - item.quantity]]
  /\ UNCHANGED <<stock, price, txlog, bills>>

\* await product.save() inside the loop
GenSaveProduct(r) ==
  /\ req[r].kind = "gen"
  /\ req[r].pc = "save"
  /\ IF ProductValid(req[r])
       THEN /\ stock' = SavedStock(req[r])
            /\ req' = [req EXCEPT ![r].pc = "tx"]
       ELSE /\ req' = Respond(req, r, 500)
            /\ UNCHANGED stock
  /\ UNCHANGED <<price, txlog, bills>>

\* new InventoryTransaction({...}) of the loop: both stock values are
\* computed from the document after the subtraction
\* (variant: the quantity not added back)
AllocationPreviousStock_NotAddedBack(docStock, quantity) == docStock
AllocationPreviousStock(docStock, quantity) == docStock + quantity
AllocationTransaction(d) ==
  LET item == d.items[d.i]
  IN [product |-> d.product, type |-> "OUT", quantity |-> item.quantity,
      previousStock |-> AllocationPreviousStock(d.docStock, item.quantity),
      newStock |-> d.docStock,
      reason |-> "Admin stock allocation",
      reference |-> AdminReference(Users[d.adminId]), performedBy |-> Actor]

BillTotal(subtotal, tax, discount) == subtotal + tax - discount

\* await transaction.save() inside the loop; after the last line the total is
\* computed and the bill document is built
GenSaveTransaction(r, tax, discount) ==
  /\ req[r].kind = "gen"
  /\ req[r].pc = "tx"
  /\ txlog' = SavedTransaction(AllocationTransaction(req[r]))
  /\ IF req[r].i < req[r].nItems
       THEN req' = [req EXCEPT ![r].i = @ + 1, ![r].pc = "read"]
       ELSE req' = [req EXCEPT ![r].pc = "bill", ![r].tax = tax, ![r].discount = discount,
                     ![r].total = BillTotal(req[r].subtotal, tax, discount)]
  /\ UNCHANGED <<stock, price, bills>>

\* new Bill({...}): no billNumber is given; status takes the schema default
NewBill(d) ==
  [hasBillNumber |-> FALSE, billNumber |-> <<>>, adminId |-> d.adminId,
   items |-> d.processedItems, subtotal |-> d.subtotal, tax |-> d.tax,
   discount |-> d.discount, total |-> d.total, status |-> "PENDING",
   generatedBy |-> Actor]

\* billSchema validators: billNumber is required, the amounts have min 0,
\* a line's quantity has min 1
BillNumberValid(b) == b.hasBillNumber
BillValid(b) ==
  /\ BillNumberValid(b)
  /\ \A k \in 1..Len(b.items) :
        b.items[k].quantity >= 1 /\ b.items[k].unitPrice >= 0 /\ b.items[k].totalPrice >= 0
  /\ b.subtotal >= 0 /\ b.tax >= 0 /\ b.discount >= 0 /\ b.total >= 0

\* billSchema.pre('save'): `BILL-${Date.now()}-${count + 1}` when the document
\* has no bill number
BillPreSave(b, count, now) ==
  IF ~b.hasBillNumber
    THEN [b EXCEPT !.hasBillNumber = TRUE, !.billNumber = <<"BILL", now, count + 1>>]
    ELSE b

\* await bill.save(), and the response.  Document.save() validates the
\* document first (mongoose's own pre-save step is placed before the hooks a
\* schema registers with pre('save')), so the document is validated as the
\* handler built it; the schema's hook and the insert under the unique index
\* on billNumber come after a successful validation.
GenSaveBill(r) ==
  /\ req[r].kind = "gen"
  /\ req[r].pc = "bill"
  /\ LET b == NewBill(req[r])
     IN IF ~BillValid(b)
          THEN /\ req' = Respond(req, r, 500)
               /\ UNCHANGED bills
          ELSE \E now \in 0..1 :
                 LET nb == BillPreSave(b, Len(bills), now)
                 IN IF \E k \in 1..Len(bills) : bills[k].billNumber = nb.billNumber
                      THEN /\ req' = Respond(req, r, 500)
                           /\ UNCHANGED bills
                      ELSE /\ bills' = Append(bills, nb)
                           /\ req' = Respond(req, r, 201)
  /\ UNCHANGED <<stock, price, txlog>>

\* PATCH /:id/status: Bill.findById, bill.status = status, bill.save() and
\* the response.  Nothing is checked about the status the bill has.  The
\* bills collection is empty in every state the requests can produce
\* (GenSaveBill), so the handler always answers 404 after the read; the
\* assignment and the save of the other branch are written as part of the
\* same step.
UpdateBillStatus(r, id, status) ==
  /\ Arrives(r)
  /\ LET h == [IdleReq EXCEPT !.kind = "patch", !.billId = id, !.newStatus = status]
     IN IF id \notin 1..Len(bills)
          THEN /\ req' = Respond(Start(r, h), r, 404)
               /\ UNCHANGED bills
          ELSE /\ bills' = [bills EXCEPT ![id].status = status]
               /\ req' = Respond(Start(r, h), r, 200)
  /\ UNCHANGED <<stock, price, txlog>>

\* ----------------------------------------------------------- specification
Init ==
  /\ stock \in [Products -> 0..MaxStock]
  /\ price = InitPrice
  /\ txlog = <<>>
  /\ bills = <<>>
  /\ req = [r \in Reqs |-> IdleReq]

Next ==
  \/ \E r \in Reqs, p \in ProductIds, q \in 1..MaxQty, why \in Reasons : AddStock(r, p, q, why)
  \/ \E r \in Reqs, p \in ProductIds, q \in 1..MaxQty, why \in Reasons : RemoveStock(r, p, q, why)
  \/ \E r \in Reqs, p \in ProductIds, n \in 0..MaxStock, why \in Reasons : AdjustStock(r, p, n, why)
  \/ \E r \in Reqs : LedgerSaveProduct(r)
  \/ \E r \in Reqs : LedgerSaveTransaction(r)
  \/ \E r \in Reqs, p \in ProductIds, body \in PutBodies : UpdateProduct(r, p, body)
  \/ \E r \in Reqs : UpdateProductSave(r)
  \/ \E r \in Reqs, a \in UserIds, n \in 1..MaxItems : GenerateBill(r, a, n)
  \/ \E r \in Reqs, item \in Lines : GenReadProduct(r, item)
  \/ \E r \in Reqs : GenSaveProduct(r)
  \/ \E r \in Reqs, tax \in Fees, discount \in Fees : GenSaveTransaction(r, tax, discount)
  \/ \E r \in Reqs : GenSaveBill(r)
  \/ \E r \in Reqs, id \in BillIds, status \in Statuses : UpdateBillStatus(r, id, status)

Spec == Init /\ [][Next]_vars

\* ------------------------------------------------------------------ claims
Last(q) == q[Len(q)]
Done(r) == req[r].pc = "done"

\* quantity that the lines 1..k of request r take from product p
RECURSIVE Taken(_, _, _)
Taken(r, p, k) ==
  IF k = 0 THEN 0
  ELSE Taken(r, p, k - 1) + (IF req[r].items[k].product = p THEN req[r].items[k].quantity ELSE 0)

\* C1: in every reachable state every product's persisted stock count is
\* at least 0, whatever requests have run and however they interleaved.
C1_StockNonNegative == \A p \in Products : stock[p] >= 0

\* a remove-stock request for more than the stock has completed
C1_Witness ==
  \E r \in Reqs :
    /\ req[r].kind = "remove" /\ Done(r) /\ req[r].status = 200
    /\ req[r].quantity > req[r].previousStock
    /\ stock[req[r].product] = 0

\* C2: the step of a generate request that reads a line asking for more than
\* the product's stock at that moment ends the request with status 400 and
\* changes neither a stock count nor the transaction log nor the bills.
C2_Step ==
  \A r \in Reqs :
    (/\ req[r].kind = "gen" /\ req[r].pc = "read"
     /\ Len(req'[r].items) = Len(req[r].items) + 1
     /\ Last(req'[r].items).product \in Products
     /\ Last(req'[r].items).quantity > stock[Last(req'[r].items).product])
    => /\ req'[r].pc = "done" /\ req'[r].status = 400
       /\ stock' = stock /\ txlog' = txlog /\ bills' = bills
C2_InsufficientStockRejected == [][C2_Step]_vars

\* a single-line generate request was refused for lack of stock
C2_Witness ==
  \E r \in Reqs :
    /\ req[r].kind = "gen" /\ Done(r) /\ req[r].status = 400 /\ req[r].alone
    /\ req[r].nItems = 1
    /\ Last(req[r].items).quantity > req[r].loadedStock
    /\ stock = req[r].stock0 /\ txlog = <<>> /\ bills = <<>>

\* C3 (as claimed): a generate request that ran alone and ended on a line that
\* failed validation (400 or 404) has left every stock count, the transaction
\* log and the bills as they were when it started.
C3_AllOrNothing ==
  \A r \in Reqs :
    (req[r].kind = "gen" /\ Done(r) /\ req[r].alone /\ req[r].status \in {400, 404})
    => /\ stock = req[r].stock0
       /\ Len(txlog) = req[r].tx0
       /\ Len(bills) = req[r].bills0

C7_LostUpdate ==
  \A r1, r2 \in Reqs :
    (/\ r1 # r2
     /\ req[r1].kind = "gen" /\ req[r2].kind = "gen"
     /\ req[r1].nItems = 1 /\ req[r2].nItems = 1
     /\ req[r1].pc \in {"tx", "bill", "done"} /\ req[r1].status \in {0, 201, 500}
     /\ req[r2].pc \in {"tx", "bill", "done"} /\ req[r2].status \in {0, 201, 500}
     /\ req[r1].product = req[r2].product
     /\ req[r1].loadedStock = req[r2].loadedStock)
    => /\ stock[req[r1].product] \in {req[r1].docStock, req[r2].docStock}
       /\ stock[req[r1].product] #
            req[r1].loadedStock - req[r1].items[1].quantity - req[r2].items[1].quantity

\* two generate requests have read the same stock count of the same product,
\* both were let through and both have recorded their debit; together they
\* took more than there was
C7_Witness ==
  \E r1, r2 \in Reqs :
    /\ r1 # r2
    /\ req[r1].kind = "gen" /\ req[r2].kind = "gen"
    /\ req[r1].nItems = 1 /\ req[r2].nItems = 1
    /\ req[r1].pc \in {"bill", "done"} /\ req[r1].status \in {0, 201, 500}
    /\ req[r2].pc \in {"bill", "done"} /\ req[r2].status \in {0, 201, 500}
    /\ req[r1].product = req[r2].product
    /\ req[r1].loadedStock = req[r2].loadedStock
    /\ req[r1].items[1].quantity + req[r2].items[1].quantity > req[r1].loadedStock
    /\ Len(txlog) = 2
    /\ txlog[1].previousStock = txlog[2].previousStock
    /\ stock[req[r1].product] # txlog[1].previousStock - txlog[1].quantity - txlog[2].quantity

\* C8 (as claimed): a completed request that ran alone and changed a product's
\* stock count from a to b has appended exactly one transaction record, for
\* that product, with previousStock a and newStock b.
C8_EveryChangeAudited ==
  \A r \in Reqs :
    (Done(r) /\ req[r].alone)
    => \A p \in Products :
         stock[p] # req[r].stock0[p]
         => /\ Len(txlog) = req[r].tx0 + 1
            /\ Last(txlog).product = p
            /\ Last(txlog).previousStock = req[r].stock0[p]
            /\ Last(txlog).newStock = stock[p]

\* C9: a generate request that ran alone and was refused for lack of stock on
\* line k > 1 has left the debits of lines 1..k-1 in effect: one OUT record
\* per earlier line, in order, every stock count lowered by what the earlier
\* lines took, and no bill persisted.
C9_EarlierDebitsRemain ==
  \A r \in Reqs :
    (/\ req[r].kind = "gen" /\ Done(r) /\ req[r].alone
     /\ req[r].status = 400 /\ Len(req[r].items) > 1)
    => LET k == Len(req[r].items)
       IN /\ Len(txlog) = req[r].tx0 + k - 1
          /\ \A j \in 1..(k - 1) :
               LET t == txlog[req[r].tx0 + j]
               IN /\ t.product = req[r].items[j].product
                  /\ t.type = "OUT"
                  /\ t.quantity = req[r].items[j].quantity
                  /\ t.reason = "Admin stock allocation"
          /\ \A p \in Products : stock[p] = req[r].stock0[p] - Taken(r, p, k - 1)
          /\ \E p \in Products : stock[p] < req[r].stock0[p]
          /\ Len(bills) = req[r].bills0

\* a two-line request was refused on its second line after debiting the first
C9_Witness ==
  \E r \in Reqs :
    /\ req[r].kind = "gen" /\ Done(r) /\ req[r].alone
    /\ req[r].status = 400 /\ Len(req[r].items) = 2
    /\ req[r].items[1].product # req[r].items[2].product
    /\ stock[req[r].items[1].product] < req[r].stock0[req[r].items[1].product]
    /\ Len(txlog) = req[r].tx0 + 1

\* C10 (as claimed): a generate request for an admin that ran alone with one
\* line of quantity q on a product with stock s >= q and price p has
\* succeeded, has left the stock at s - q, has appended exactly one OUT record
\* (previousStock s, newStock s - q, quantity q, the allocation reason, a
\* reference naming the admin) and has persisted exactly one bill, PENDING,
\* with total q * p + tax - discount.
C10_SingleLineBill ==
  \A r \in Reqs :
    (/\ req[r].kind = "gen" /\ Done(r) /\ req[r].alone
     /\ req[r].nItems = 1 /\ Len(req[r].items) = 1
     /\ req[r].items[1].product \in Products
     /\ req[r].items[1].quantity <= req[r].stock0[req[r].items[1].product])
    => LET p == req[r].items[1].product
           q == req[r].items[1].quantity
           s == req[r].stock0[p]
       IN /\ stock[p] = s - q
          /\ Len(txlog) = req[r].tx0 + 1
          /\ Last(txlog) = [product |-> p, type |-> "OUT", quantity |-> q,
                            previousStock |-> s, newStock |-> s - q,
                            reason |-> "Admin stock allocation",
                            reference |-> AdminReference(Users[req[r].adminId]),
                            performedBy |-> Actor]
          /\ req[r].status = 201
          /\ Len(bills) = req[r].bills0 + 1
          /\ Last(bills).status = "PENDING"
          /\ Last(bills).total = q * price[p] + req[r].tax - req[r].discount

\* C11: a remove-stock request for an existing product that ran alone has
\* succeeded whatever the stock s and the quantity q were, also for q > s: the
\* stock is max(0, s - q) and exactly one OUT record was appended, with
\* previousStock s and newStock max(0, s - q).
C11_DecreaseClamps ==
  \A r \in Reqs :
    (/\ req[r].kind = "remove" /\ Done(r) /\ req[r].alone
     /\ req[r].product \in Products)
    => LET p == req[r].product
           q == req[r].quantity
           s == req[r].stock0[p]
       IN /\ req[r].status = 200
          /\ stock[p] = Max(0, s - q)
          /\ \A o \in Products \ {p} : stock[o] = req[r].stock0[o]
          /\ Len(txlog) = req[r].tx0 + 1
          /\ Last(txlog) = [product |-> p, type |-> "OUT", quantity |-> q,
                            previousStock |-> s, newStock |-> Max(0, s - q),
                            reason |-> req[r].reason, reference |-> <<>>,
                            performedBy |-> Actor]

\* a remove-stock request took more than the stock that was there
C11_Witness ==
  \E r \in Reqs :
    /\ req[r].kind = "remove" /\ Done(r) /\ req[r].alone /\ req[r].status = 200
    /\ req[r].quantity > req[r].stock0[req[r].product]
    /\ stock[req[r].product] = 0
    /\ Last(txlog).type = "OUT" /\ Last(txlog).newStock = 0

\* C12: an adjust-stock request for an existing product that ran alone has set
\* the stock to exactly its newQuantity n, whatever the stock s was, and has
\* appended exactly one ADJUSTMENT record with previousStock s, newStock n and
\* quantity |n - s|; a second such request with the same n, run after the
\* first, finds the stock at n and leaves it at n.
C12_AdjustAbsolute ==
  \A r \in Reqs :
    (/\ req[r].kind = "adjust" /\ Done(r) /\ req[r].alone
     /\ req[r].product \in Products)
    => LET p == req[r].product
           n == req[r].newStock
           s == req[r].stock0[p]
       IN /\ req[r].status = 200
          /\ stock[p] = n
          /\ \A o \in Products \ {p} : stock[o] = req[r].stock0[o]
          /\ Len(txlog) = req[r].tx0 + 1
          /\ Last(txlog) = [product |-> p, type |-> "ADJUSTMENT", quantity |-> Abs(n - s),
                            previousStock |-> s, newStock |-> n,
                            reason |-> req[r].reason, reference |-> <<>>,
                            performedBy |-> Actor]
          /\ \A o \in Reqs \ {r} :
               (/\ req[o].kind = "adjust" /\ Done(o) /\ req[o].status = 200
                /\ req[o].product = p /\ req[o].newStock = n /\ req[r].tx0 = 1)
               => s = n /\ Last(txlog).quantity = 0

\* the same adjustment was applied twice, one request after the other; the
\* first lowered the stock, the second found it at the target
C12_Witness ==
  \E r, o \in Reqs :
    /\ r # o
    /\ req[r].kind = "adjust" /\ Done(r) /\ req[r].alone /\ req[r].status = 200
    /\ req[o].kind = "adjust" /\ Done(o) /\ req[o].status = 200
    /\ req[o].product = req[r].product /\ req[o].newStock = req[r].newStock
    /\ Len(txlog) = 2
    /\ txlog[1].previousStock > txlog[1].newStock
    /\ txlog[1].quantity = txlog[1].previousStock - txlog[1].newStock
    /\ txlog[2].quantity = 0
    /\ stock[req[r].product] = req[r].newStock

\* a bill without its status
BillBody(b) == [b EXCEPT !.status = "PENDING"]

\* C14: no step changes a bill that exists other than in its status, and no
\* step changes or removes a transaction record that exists; a status update
\* leaves every stock count and the transaction log as they were.
C14_Step ==
  /\ Len(bills') >= Len(bills)
  /\ \A k \in 1..Len(bills) : BillBody(bills'[k]) = BillBody(bills[k])
  /\ Len(txlog') >= Len(txlog)
  /\ \A k \in 1..Len(txlog) : txlog'[k] = txlog[k]
  /\ \A r \in Reqs :
       (req[r].pc = "idle" /\ req'[r].kind = "patch") => stock' = stock /\ txlog' = txlog
C15_AdminNotFound ==
  \A r \in Reqs :
    (req[r].kind = "gen" /\ ~(req[r].adminId \in DOMAIN Users /\ Users[req[r].adminId].role = "admin"))
    => /\ Done(r)
       /\ req[r].status = 404
       /\ req[r].items = <<>>
       /\ req[r].processedItems = <<>>
       /\ req[r].alone => /\ stock = req[r].stock0
                          /\ Len(txlog) = req[r].tx0
                          /\ Len(bills) = req[r].bills0

\* the target exists but is an ordinary user, and stock was there to take
C15_Witness ==
  \E r \in Reqs :
    /\ req[r].kind = "gen" /\ Done(r) /\ req[r].alone
    /\ req[r].adminId = "u1"
    /\ req[r].status = 404
    /\ \E p \in Products : stock[p] > 0

\* the request r is a bill request for an admin whose lines were all read,
\* found and debited
AllLinesDebited(r) ==
  /\ req[r].kind = "gen" /\ Done(r)
  /\ req[r].nItems >= 1
  /\ Len(req[r].processedItems) = req[r].nItems

\* C16: a bill request whose lines were all debited ends with the answer 201
\* and, when it ran alone, with exactly one bill more than when it arrived.
C16_BillAlwaysPersisted ==
  \A r \in Reqs :
    AllLinesDebited(r)
    => /\ req[r].status = 201
       /\ req[r].alone => Len(bills) = req[r].bills0 + 1

\* the lines 1..k of request r all name product p
SameProduct(r, p, k) == \A j \in 1..k : req[r].items[j].product = p

\* the stock part of C17: the lines of one request on one product are checked
\* against what the earlier lines left, and the OUT records chain
C17_Stock(r, p) ==
  LET s == req[r].stock0[p]
      n == Len(req[r].items)
  IN /\ req[r].status = 400 => /\ Taken(r, p, n) > s
                               /\ Taken(r, p, n - 1) <= s
                               /\ stock[p] = s - Taken(r, p, n - 1)
                               /\ Len(txlog) = req[r].tx0 + n - 1
     /\ req[r].status # 400 => /\ n = req[r].nItems
                               /\ Taken(r, p, n) <= s
                               /\ stock[p] = s - Taken(r, p, n)
                               /\ Len(txlog) = req[r].tx0 + n
     /\ \A j \in 1..(Len(txlog) - req[r].tx0) :
          LET t == txlog[req[r].tx0 + j]
          IN /\ t.product = p /\ t.type = "OUT"
             /\ t.previousStock = s - Taken(r, p, j - 1)
             /\ t.newStock = s - Taken(r, p, j)
             /\ j > 1 => t.previousStock = txlog[req[r].tx0 + j - 1].newStock

\* C17: a bill request that ran alone and names one product on several lines
\* is refused exactly when the quantities add up to more than the stock at
\* its arrival; otherwise the stock ends at that stock minus the sum, the OUT
\* records chain, and the bill is created.
C17_SameProductLines ==
  \A r \in Reqs, p \in Products :
    (/\ req[r].kind = "gen" /\ Done(r) /\ req[r].alone
     /\ Len(req[r].items) >= 2
     /\ SameProduct(r, p, Len(req[r].items)))
    => /\ C17_Stock(r, p)
       /\ req[r].status # 400 => /\ req[r].status = 201
                                 /\ Len(bills) = req[r].bills0 + 1

====
